---------------------------- MODULE Spec2Model ----------------------------
(***************************************************************************)
(* The dense linear-algebra kernels of chapter2: forward and back          *)
(* substitution (lib.rs), Gaussian elimination with partial pivoting       *)
(* (bin/ex1.rs), LU decomposition with partial pivoting (bin/ex23.rs) and  *)
(* the power iteration (bin/ex4.rs).                                       *)
(*                                                                         *)
(* Numbers.  An f64 is modelled by a triple <<n, d, e>> that stands for    *)
(* the real number (n / d) * EPSILON^e, EPSILON = 1e-10 (lib.rs:10), in    *)
(* lowest terms with d > 0, and by the three IEEE specials <<1, 0, 0>>     *)
(* (+inf), <<-1, 0, 0>> (-inf) and <<0, 0, 0>> (NaN).  Arithmetic is       *)
(* exact: the rounding of f64 operations and the sign of zero are outside  *)
(* the model.  Division by zero and operations on the specials follow      *)
(* IEEE 754.                                                               *)
(***************************************************************************)
EXTENDS Integers, Sequences, FiniteSets

VARIABLES
    n,      \* the dimension N of the run
    a,      \* the caller's matrix A
    b,      \* the caller's right-hand side b
    ab,     \* ex1: the augmented working matrix [A | b]
    l,      \* ex23: L
    u,      \* ex23: U (the working copy of A)
    pi,     \* ex23: the row permutation
    k,      \* the pivot column of the elimination loops
    y,      \* the result of forward_substitution
    x,      \* the result of back_substitution
    x_k,    \* ex4: the direction of the current iterate
    unit,   \* ex4: whether the iterate has been normalized
    mu,     \* ex4: the estimates pushed so far
    count,  \* ex4: the loop counter
    sol,    \* ex4: the returned DominantEigenvalueSolution
    pc,     \* the position of the running routine
    err     \* the panic message of a run that ended in a panic

vars == <<n, a, b, ab, l, u, pi, k, y, x, x_k, unit, mu, count, sol, pc, err>>

(***************************************************************************)
(* Bounds of the model.                                                    *)
(***************************************************************************)
\* entries of the 1x1 and 2x2 inputs range over -MaxVal .. MaxVal
MaxVal == 2

\* the power iteration is followed for at most MaxSteps steps of its loop
MaxSteps == 16

\* and only while the entries of its iterate's direction are at most this
MaxMagnitude == 1000000

(***************************************************************************)
(* f64 arithmetic                                                          *)
(***************************************************************************)
Sign(i) == IF i > 0 THEN 1 ELSE IF i < 0 THEN -1 ELSE 0

AbsI(i) == IF i < 0 THEN -i ELSE i

RECURSIVE GCD(_, _)
GCD(p, q) == IF q = 0 THEN p ELSE GCD(q, p % q)

\* the f64 that stands for (p / q) * EPSILON^e
Norm(p, q, e) ==
    IF q = 0 THEN <<Sign(p), 0, 0>>
    ELSE IF p = 0 THEN <<0, 1, 0>>
    ELSE LET g == GCD(AbsI(p), AbsI(q))
         IN  <<Sign(q) * (p \div g), AbsI(q) \div g, e>>

R(i) == <<i, 1, 0>>

Zero == R(0)

One == R(1)

NaN == <<0, 0, 0>>

PosInf == <<1, 0, 0>>

NegInf == <<-1, 0, 0>>

EPSILON == <<1, 1, 1>>

IsNaN(p) == p = NaN

IsFinite(p) == p[2] # 0

Neg(p) == <<-p[1], p[2], p[3]>>

Abs(p) == <<AbsI(p[1]), p[2], p[3]>>

Mul(p, q) ==
    LET g1 == GCD(AbsI(p[1]), AbsI(q[2]))
        g2 == GCD(AbsI(q[1]), AbsI(p[2]))
    IN  IF p[2] = 0 \/ q[2] = 0 \/ p[1] = 0 \/ q[1] = 0
        THEN Norm(p[1] * q[1], p[2] * q[2], 0)
        ELSE <<(p[1] \div g1) * (q[1] \div g2),
               (p[2] \div g2) * (q[2] \div g1), p[3] + q[3]>>

Recip(p) == Norm(p[2], p[1], -p[3])

Div(p, q) == Mul(p, Recip(q))

\* Sums of two finite non-zero numbers are taken at one scale e; the model
\* never adds numbers of different scales.
Add(p, q) ==
    IF p[2] = 0 /\ q[2] = 0 THEN (IF p = q THEN p ELSE NaN)
    ELSE IF p[2] = 0 THEN p
    ELSE IF q[2] = 0 THEN q
    ELSE IF p[1] = 0 THEN q
    ELSE IF q[1] = 0 THEN p
    ELSE CASE p[3] = q[3] ->
              LET g == GCD(p[2], q[2])
              IN  Norm(p[1] * (q[2] \div g) + q[1] * (p[2] \div g),
                       p[2] * (q[2] \div g), p[3])

Sub(p, q) == Add(p, Neg(q))

\* p < q for positive finite p and q.  At different scales the number with
\* the higher power of EPSILON is the smaller one: n and d are 32-bit, so
\* (n1 * d2) * 1e-10 < 1 <= n2 * d1.
LtPos(p, q) ==
    IF p[3] = q[3] THEN p[1] * q[2] < q[1] * p[2]
    ELSE p[3] > q[3]

\* p < q as f64::partial_cmp decides it (false when either is NaN)
Lt(p, q) ==
    IF IsNaN(p) \/ IsNaN(q) \/ p = q THEN FALSE
    ELSE IF p = NegInf \/ q = PosInf THEN TRUE
    ELSE IF p = PosInf \/ q = NegInf THEN FALSE
    ELSE IF Sign(p[1]) # Sign(q[1]) THEN Sign(p[1]) < Sign(q[1])
    ELSE IF p[1] > 0 THEN LtPos(p, q)
    ELSE LtPos(Neg(q), Neg(p))

Le(p, q) == Lt(p, q) \/ (p = q /\ ~IsNaN(p))

\* |p - q| < EPSILON, the comparison of the repository's tests
Close(p, q) == Lt(Abs(Sub(p, q)), EPSILON)

(***************************************************************************)
(* Matrices and vectors (matrix.rs; nalgebra's SMatrix and DMatrix in the  *)
(* binaries): a matrix is a function from the row index to the row, a row  *)
(* and a vector are functions from 0 .. len-1 to numbers.                  *)
(***************************************************************************)
\* the closure f is a function of the pair of indices
from_fn(rows, cols, f) ==
    [i \in 0 .. rows - 1 |-> [j \in 0 .. cols - 1 |-> f[i, j]]]

identity(nn) ==
    from_fn(nn, nn, [i, j \in 0 .. nn - 1 |-> IF i = j THEN One ELSE Zero])

zeroed(nn) == [i \in 0 .. nn - 1 |-> Zero]

swap_rows(m, i, kk) == [m EXCEPT ![i] = m[kk], ![kk] = m[i]]

\* sum of row[j] * v[j] for j = lo .. hi, accumulated in ascending j
RECURSIVE Dot(_, _, _, _)
Dot(row, v, lo, hi) ==
    IF hi < lo THEN Zero
    ELSE Add(Dot(row, v, lo, hi - 1), Mul(row[hi], v[hi]))

\* Matrix * Vector
MulVec(m, v, nn) == [i \in 0 .. nn - 1 |-> Dot(m[i], v, 0, nn - 1)]

(***************************************************************************)
(* Triangular solvers (lib.rs)                                             *)
(***************************************************************************)
\* the assertion of forward_substitution: column i, rows 0 .. i-1
IsLowerTriangular(m, nn) ==
    \A i \in 0 .. nn - 1 : \A r \in 0 .. i - 1 : Lt(Abs(m[r][i]), EPSILON)

\* the assertion of back_substitution: column i, rows i+1 .. N-1
IsUpperTriangular(m, nn) ==
    \A i \in 0 .. nn - 1 : \A r \in i + 1 .. nn - 1 : Lt(Abs(m[r][i]), EPSILON)

\* mutant: the sum over the earlier unknowns is left out
RECURSIVE ForwardFromNoSum(_, _, _, _, _)
ForwardFromNoSum(m, bb, nn, i, yy) ==
    IF i >= nn THEN yy
    ELSE ForwardFromNoSum(m, bb, nn, i + 1,
                          [yy EXCEPT ![i] = Div(bb[i], m[i][i])])

RECURSIVE ForwardFrom(_, _, _, _, _)
ForwardFrom(m, bb, nn, i, yy) ==
    IF i >= nn THEN yy
    ELSE LET sum == Dot(m[i], yy, 0, i - 1)
         IN  ForwardFrom(m, bb, nn, i + 1,
                         [yy EXCEPT ![i] = Div(Sub(bb[i], sum), m[i][i])])

\* the loop of forward_substitution, after its assertion
forward_substitution(m, bb, nn) == ForwardFrom(m, bb, nn, 0, zeroed(nn))

RECURSIVE BackFrom(_, _, _, _, _)
BackFrom(m, bb, nn, i, xx) ==
    IF i < 0 THEN xx
    ELSE LET sum == Dot(m[i], xx, i + 1, nn - 1)
         IN  BackFrom(m, bb, nn, i - 1,
                      [xx EXCEPT ![i] = Div(Sub(bb[i], sum), m[i][i])])

\* the loop of back_substitution, after its assertion
back_substitution(m, bb, nn) == BackFrom(m, bb, nn, nn - 1, zeroed(nn))

(***************************************************************************)
(* Partial pivoting and elimination (ex1.rs, ex23.rs)                      *)
(***************************************************************************)
\* the rows that pass .filter(|(_, value)| value.abs() > EPSILON)
PivotCandidates(m, kk, nn) ==
    {i \in kk .. nn - 1 : Lt(EPSILON, Abs(m[i][kk]))}

\* mutant: the first candidate is taken, whatever its magnitude
PivotRowFirstCandidate(m, kk, nn) ==
    CHOOSE i \in PivotCandidates(m, kk, nn) :
        \A j \in PivotCandidates(m, kk, nn) : i <= j

\* Iterator::max_by keeps the later of two elements that compare equal
PivotRow(m, kk, nn) ==
    LET c == PivotCandidates(m, kk, nn)
    IN  CHOOSE i \in c :
            \A j \in c :
                /\ j > i => Lt(Abs(m[j][kk]), Abs(m[i][kk]))
                /\ j < i => ~Lt(Abs(m[i][kk]), Abs(m[j][kk]))

\* mutant: the inner loops start at the pivot row, for i in k..n
FirstEliminatedPivotRow(kk) == kk

\* first row of the inner loops: for i in (k + 1)..n
FirstEliminated(kk) == kk + 1

\* mutant: the inner loop stops at the last column of A, for j in k..n
EliminateCoefficientsOnly(m, kk, nn, cols) ==
    [i \in 0 .. nn - 1 |->
        IF i < kk + 1 THEN m[i]
        ELSE LET factor == Div(m[i][kk], m[kk][kk])
             IN  [j \in 0 .. cols - 1 |->
                    IF j < kk \/ j >= nn THEN m[i][j]
                    ELSE Sub(m[i][j], Mul(factor, m[kk][j]))]]

\* mutant: the inner loop starts right of the pivot column, for j in (k+1)..
EliminateRightOfPivot(m, kk, nn, cols) ==
    [i \in 0 .. nn - 1 |->
        IF i < kk + 1 THEN m[i]
        ELSE LET factor == Div(m[i][kk], m[kk][kk])
             IN  [j \in 0 .. cols - 1 |->
                    IF j < kk + 1 THEN m[i][j]
                    ELSE Sub(m[i][j], Mul(factor, m[kk][j]))]]

\* for i in (k + 1)..n { factor = m[i,k] / m[k,k];
\*                       for j in k..cols { m[i,j] -= factor * m[k,j] } }
Eliminate(m, kk, nn, cols) ==
    [i \in 0 .. nn - 1 |->
        IF i < FirstEliminated(kk) THEN m[i]
        ELSE LET factor == Div(m[i][kk], m[kk][kk])
             IN  [j \in 0 .. cols - 1 |->
                    IF j < kk THEN m[i][j]
                    ELSE Sub(m[i][j], Mul(factor, m[kk][j]))]]

(***************************************************************************)
(* Inputs.  The callers draw A and b at random (lib.rs:119-120); the model *)
(* draws them from bounded sets of small integer matrices and vectors.     *)
(***************************************************************************)
Dims == {1, 2, 3}

\* 3x3 inputs have entries in -1 .. 1, smaller ones in -MaxVal .. MaxVal
Entries(nn) == IF nn = 3 THEN -1 .. 1 ELSE -MaxVal .. MaxVal

IntMatrix(m, nn) == [i \in 0 .. nn - 1 |-> [j \in 0 .. nn - 1 |-> R(m[i][j])]]

IntVector(v, nn) == [i \in 0 .. nn - 1 |-> R(v[i])]

\* the matrix of test_lu_decomposition and test_do_gaussian_elimination
ExampleA ==
    [i \in 0 .. 2 |-> [j \in 0 .. 2 |->
        R((<<<<2, 1, -1>>, <<-3, -1, 2>>, <<-2, 1, 2>>>>)[i + 1][j + 1])]]

\* the augmented column of test_do_gaussian_elimination
ExampleB == [i \in 0 .. 2 |-> R((<<8, -11, -3>>)[i + 1])]

Matrices(nn) ==
    {IntMatrix(m, nn) : m \in [0 .. nn - 1 -> [0 .. nn - 1 -> Entries(nn)]]}
        \cup (IF nn = 3 THEN {ExampleA} ELSE {})

\* right-hand sides with pairwise distinct entries
Vectors(nn) ==
    {[i \in 0 .. nn - 1 |-> R(i + 1)], [i \in 0 .. nn - 1 |-> R(1 - 2 * i)]}
        \cup (IF nn = 3 THEN {ExampleB} ELSE {})

\* the values of the variables a run does not use
Idle ==
    /\ ab = <<>> /\ l = <<>> /\ u = <<>> /\ pi = <<>> /\ k = 0
    /\ y = <<>> /\ x = <<>> /\ x_k = <<>> /\ unit = FALSE /\ mu = <<>>
    /\ count = 0 /\ sol = <<>> /\ err = ""

(***************************************************************************)
(* solve_by_gaussian_elimination (ex1.rs:30-41) with                       *)
(* do_gaussian_elimination_for_n_n1 (ex1.rs:4-28)                          *)
(***************************************************************************)
\* DMatrix::from_fn(N, N + 1, |i, j| if j < N { a[(i, j)] } else { b[i] })
Augmented(m, v, nn) ==
    from_fn(nn, nn + 1,
            [i \in 0 .. nn - 1, j \in 0 .. nn |->
                IF j < nn THEN m[i][j] ELSE v[i]])

\* the pivot columns visited: for k in 0..(n - 1)
GaussLastK(nn) == nn - 1

InitGauss ==
    /\ n \in Dims
    /\ a \in Matrices(n)
    /\ b \in Vectors(n)
    /\ ab = Augmented(a, b, n)
    /\ k = 0
    /\ pc = IF 0 < GaussLastK(n) THEN "pivot" ELSE "back"
    /\ l = <<>> /\ u = <<>> /\ pi = <<>>
    /\ y = <<>> /\ x = <<>> /\ x_k = <<>> /\ unit = FALSE /\ mu = <<>>
    /\ count = 0 /\ sol = <<>> /\ err = ""

\* ex1.rs:11-19, a pivot exists: select it and swap it into row k
GaussPivot ==
    /\ pc = "pivot"
    /\ PivotCandidates(ab, k, n) # {}
    /\ LET i == PivotRow(ab, k, n)
       IN  ab' = IF i # k THEN swap_rows(ab, i, k) ELSE ab
    /\ pc' = "eliminate"
    /\ UNCHANGED <<n, a, b, l, u, pi, k, y, x, x_k, unit, mu, count, sol, err>>

\* ex1.rs:15, .expect("Matrix is singular")
GaussSingular ==
    /\ pc = "pivot"
    /\ PivotCandidates(ab, k, n) = {}
    /\ pc' = "panic"
    /\ err' = "Matrix is singular"
    /\ UNCHANGED <<n, a, b, ab, l, u, pi, k, y, x, x_k, unit, mu, count, sol>>

\* ex1.rs:21-26, then the next k
GaussEliminate ==
    /\ pc = "eliminate"
    /\ ab' = Eliminate(ab, k, n, n + 1)
    /\ k' = k + 1
    /\ pc' = IF k + 1 < GaussLastK(n) THEN "pivot" ELSE "back"
    /\ UNCHANGED <<n, a, b, l, u, pi, y, x, x_k, unit, mu, count, sol, err>>

\* ex1.rs:37-40, the call of back_substitution on the reduced system
GaussBack ==
    /\ pc = "back"
    /\ LET m == from_fn(n, n, [i, j \in 0 .. n - 1 |-> ab[i][j]])
           v == [i \in 0 .. n - 1 |-> ab[i][n]]
       IN  IF IsUpperTriangular(m, n)
           THEN /\ x' = back_substitution(m, v, n)
                /\ pc' = "done"
                /\ err' = err
           ELSE /\ x' = x
                /\ pc' = "panic"
                /\ err' = "Matrix is not upper triangular"
    /\ UNCHANGED <<n, a, b, ab, l, u, pi, k, y, x_k, unit, mu, count, sol>>

NextGauss == GaussPivot \/ GaussSingular \/ GaussEliminate \/ GaussBack

SpecGauss == InitGauss /\ [][NextGauss]_vars

(***************************************************************************)
(* lu_decomposition (ex23.rs:10-55) and solve_by_lu_decomposition          *)
(* (ex23.rs:57-67)                                                         *)
(***************************************************************************)
\* mutant: the loop bound of the textbook (ex23.rs:20-29), k in 0..N-1
LULastKTextbook(nn) == nn - 1

\* the pivot columns visited: for k in 0..N
LULastK(nn) == nn

\* mutant: the swap of pi is forgotten
SwapEntriesForgotten(p, i, kk) == p

\* mutant: only one side of the swap is written
SwapEntriesOneSided(p, i, kk) == [p EXCEPT ![i] = p[kk]]

\* pi.swap(i, k)
SwapEntries(p, i, kk) == [p EXCEPT ![i] = p[kk], ![kk] = p[i]]

\* ex23.rs:48-51 on the L of step k, with the factors of the U before its
\* elimination: l[(i, k)] = factor for i in (k + 1)..N, l[(k, k)] = 1.0,
\* and rows 0 .. k-1 of column k set to 0.0
StoreFactors(ll, uu, kk, nn) ==
    [i \in 0 .. nn - 1 |->
        [j \in 0 .. nn - 1 |->
            IF j # kk THEN ll[i][j]
            ELSE IF i > kk THEN Div(uu[i][kk], uu[kk][kk])
            ELSE IF i = kk THEN One
            ELSE Zero]]

\* mutant: b is passed on without the permutation
PermutedNot(v, p, nn) == [i \in 0 .. nn - 1 |-> v[i]]

\* SVector::from_fn(|i, _| b[pi[i]])
Permuted(v, p, nn) == [i \in 0 .. nn - 1 |-> v[p[i]]]

InitLU ==
    /\ n \in Dims
    /\ a \in Matrices(n)
    /\ b \in Vectors(n)
    /\ pi = [i \in 0 .. n - 1 |-> i]
    /\ l = identity(n)
    /\ u = a
    /\ k = 0
    /\ pc = "pivot"
    /\ ab = <<>>
    /\ y = <<>> /\ x = <<>> /\ x_k = <<>> /\ unit = FALSE /\ mu = <<>>
    /\ count = 0 /\ sol = <<>> /\ err = ""

\* mutant: the rows are swapped in the caller's matrix as well, as if u were
\* a reference to a
LUPivotInPlace ==
    /\ pc = "pivot"
    /\ PivotCandidates(u, k, n) # {}
    /\ LET i == PivotRow(u, k, n)
       IN  IF i # k
           THEN /\ u' = swap_rows(u, i, k)
                /\ a' = swap_rows(a, i, k)
                /\ l' = swap_rows(l, i, k)
                /\ pi' = SwapEntries(pi, i, k)
           ELSE UNCHANGED <<u, a, l, pi>>
    /\ pc' = "eliminate"
    /\ UNCHANGED <<n, b, ab, k, y, x, x_k, unit, mu, count, sol, err>>

\* ex23.rs:31-41, a pivot exists: select it and swap it into row k
LUPivot ==
    /\ pc = "pivot"
    /\ PivotCandidates(u, k, n) # {}
    /\ LET i == PivotRow(u, k, n)
       IN  IF i # k
           THEN /\ u' = swap_rows(u, i, k)
                /\ l' = swap_rows(l, i, k)
                /\ pi' = SwapEntries(pi, i, k)
           ELSE UNCHANGED <<u, l, pi>>
    /\ pc' = "eliminate"
    /\ UNCHANGED <<n, a, b, ab, k, y, x, x_k, unit, mu, count, sol, err>>

\* ex23.rs:35, .expect("Matrix is singular")
LUSingular ==
    /\ pc = "pivot"
    /\ PivotCandidates(u, k, n) = {}
    /\ pc' = "panic"
    /\ err' = "Matrix is singular"
    /\ UNCHANGED <<n, a, b, ab, l, u, pi, k, y, x, x_k, unit, mu, count, sol>>

\* ex23.rs:43-51, then the next k; after the last k lu_decomposition returns
\* and solve_by_lu_decomposition goes on to the forward substitution
LUEliminate ==
    /\ pc = "eliminate"
    /\ u' = Eliminate(u, k, n, n)
    /\ l' = StoreFactors(l, u, k, n)
    /\ k' = k + 1
    /\ pc' = IF k + 1 < LULastK(n) THEN "pivot" ELSE "forward"
    /\ UNCHANGED <<n, a, b, ab, pi, y, x, x_k, unit, mu, count, sol, err>>

\* ex23.rs:64, y = forward_substitution(&l, &Pb)
LUForward ==
    /\ pc = "forward"
    /\ IF IsLowerTriangular(l, n)
       THEN /\ y' = forward_substitution(l, Permuted(b, pi, n), n)
            /\ pc' = "back"
            /\ err' = err
       ELSE /\ y' = y
            /\ pc' = "panic"
            /\ err' = "Matrix is not lower triangular"
    /\ UNCHANGED <<n, a, b, ab, l, u, pi, k, x, x_k, unit, mu, count, sol>>

\* ex23.rs:66, back_substitution(&u, &y)
LUBack ==
    /\ pc = "back"
    /\ IF IsUpperTriangular(u, n)
       THEN /\ x' = back_substitution(u, y, n)
            /\ pc' = "done"
            /\ err' = err
       ELSE /\ x' = x
            /\ pc' = "panic"
            /\ err' = "Matrix is not upper triangular"
    /\ UNCHANGED <<n, a, b, ab, l, u, pi, k, y, x_k, unit, mu, count, sol>>

NextLU == LUPivot \/ LUSingular \/ LUEliminate \/ LUForward \/ LUBack

SpecLU == InitLU /\ [][NextLU]_vars

(***************************************************************************)
(* Wide naturals, for the comparisons of the power iteration whose cross   *)
(* products exceed 32 bits: a sequence of limbs in base 10^4, the least    *)
(* significant first, without leading zero limbs.                          *)
(***************************************************************************)
Base == 100 * 100

RECURSIVE BigOfNat(_)
BigOfNat(v) == IF v = 0 THEN <<>> ELSE <<v % Base>> \o BigOfNat(v \div Base)

RECURSIVE BigTrim(_)
BigTrim(p) ==
    IF p = <<>> THEN <<>>
    ELSE IF p[Len(p)] = 0 THEN BigTrim(SubSeq(p, 1, Len(p) - 1))
    ELSE p

RECURSIVE BigAddC(_, _, _)
BigAddC(p, q, c) ==
    IF p = <<>> /\ q = <<>> THEN BigOfNat(c)
    ELSE LET t == (IF p = <<>> THEN 0 ELSE Head(p))
                  + (IF q = <<>> THEN 0 ELSE Head(q)) + c
         IN  <<t % Base>> \o BigAddC(IF p = <<>> THEN p ELSE Tail(p),
                                     IF q = <<>> THEN q ELSE Tail(q),
                                     t \div Base)

BigAdd(p, q) == BigAddC(p, q, 0)

\* p - q - c for p >= q + c
RECURSIVE BigSubC(_, _, _)
BigSubC(p, q, c) ==
    IF p = <<>> THEN <<>>
    ELSE LET t == Head(p) - (IF q = <<>> THEN 0 ELSE Head(q)) - c
         IN  <<(t + Base) % Base>>
                 \o BigSubC(Tail(p), IF q = <<>> THEN q ELSE Tail(q),
                            IF t < 0 THEN 1 ELSE 0)

BigSub(p, q) == BigTrim(BigSubC(p, q, 0))

RECURSIVE BigMulSmall(_, _, _)
BigMulSmall(p, d, c) ==
    IF p = <<>> THEN BigOfNat(c)
    ELSE LET t == Head(p) * d + c
         IN  <<t % Base>> \o BigMulSmall(Tail(p), d, t \div Base)

RECURSIVE BigMul(_, _)
BigMul(p, q) ==
    IF p = <<>> \/ q = <<>> THEN <<>>
    ELSE BigTrim(BigAdd(BigMulSmall(p, Head(q), 0),
                        <<0>> \o BigMul(p, Tail(q))))

RECURSIVE BigLtFrom(_, _, _)
BigLtFrom(p, q, i) ==
    IF i = 0 THEN FALSE
    ELSE IF p[i] # q[i] THEN p[i] < q[i]
    ELSE BigLtFrom(p, q, i - 1)

BigLt(p, q) ==
    IF Len(p) # Len(q) THEN Len(p) < Len(q) ELSE BigLtFrom(p, q, Len(p))

BigAbsDiff(p, q) == IF BigLt(p, q) THEN BigSub(q, p) ELSE BigSub(p, q)

BigSquare(p) == BigMul(p, p)

\* 1 / EPSILON = 10^10
EpsilonInverse == BigMul(BigOfNat(100000), BigOfNat(100000))

(***************************************************************************)
(* solve_by_power_iteration (ex4.rs:4-32).  The iterate x_k is kept as its *)
(* direction, a vector of integers without a common factor: before the     *)
(* first normalization the iterate is the direction itself (all ones),     *)
(* afterwards it is the direction divided by its Euclidean norm.  y_k[i] / *)
(* x_k[i] and the index of the largest magnitude do not depend on that     *)
(* positive factor.                                                        *)
(***************************************************************************)
MAX_ITERATIONS == 1000000

\* the matrix of test_solve_by_power_iteration
ExampleP ==
    [i \in 0 .. 2 |-> [j \in 0 .. 2 |->
        R((<<<<2, 1, 0>>, <<1, 2, 1>>, <<0, 1, 2>>>>)[i + 1][j + 1])]]

Symmetric(m, nn) == \A i, j \in 0 .. nn - 1 : m[i][j] = m[j][i]

\* experiment_randomly symmetrizes its input (lib.rs:196-199); the 1x1 and
\* 2x2 inputs of the model also include the matrices that are not symmetric
PowerMatrices(nn) ==
    {m \in Matrices(nn) : nn < 3 \/ Symmetric(m, nn)}
        \cup (IF nn = 3 THEN {ExampleP} ELSE {})

\* Vector::filled_with(1.0)
filled_with(v, nn) == [i \in 0 .. nn - 1 |-> v]

\* .max_by(partial_cmp(&p.abs(), &q.abs()).expect("found NaN or Inf")) has
\* a comparison that involves a NaN: every entry is compared once there are
\* two of them
ComparesNaN(v, nn) == nn >= 2 /\ \E i \in 0 .. nn - 1 : IsNaN(v[i])

\* the index max_by returns: of entries of equal magnitude, the last
MaxAbsIndex(v, nn) ==
    CHOOSE i \in 0 .. nn - 1 :
        \A j \in 0 .. nn - 1 :
            /\ j > i => Lt(Abs(v[j]), Abs(v[i]))
            /\ j < i => ~Lt(Abs(v[i]), Abs(v[j]))

\* mutant: two estimates that are both NaN pass the test
ConvergedNaNEqual(it, mu_k) ==
    \/ IsNaN(it) /\ IsNaN(mu_k)
    \/ /\ IsFinite(it) /\ IsFinite(mu_k)
       /\ LET p1 == BigOfNat(AbsI(it[1]))
              q1 == BigOfNat(it[2])
              p2 == BigOfNat(AbsI(mu_k[1]))
              q2 == BigOfNat(mu_k[2])
          IN  BigLt(BigMul(BigAbsDiff(BigMul(p1, q2), BigMul(p2, q1)),
                           EpsilonInverse),
                    BigMul(q1, q2))

\* (it.abs() - mu_k.abs()).abs() < EPSILON, in wide integers: for it = p1/q1
\* and mu_k = p2/q2, | |p1| q2 - |p2| q1 | * 10^10 < q1 q2.  A NaN or an
\* infinity on either side makes the f64 comparison false.
Converged(it, mu_k) ==
    /\ IsFinite(it) /\ IsFinite(mu_k)
    /\ LET p1 == BigOfNat(AbsI(it[1]))
           q1 == BigOfNat(it[2])
           p2 == BigOfNat(AbsI(mu_k[1]))
           q2 == BigOfNat(mu_k[2])
       IN  BigLt(BigMul(BigAbsDiff(BigMul(p1, q2), BigMul(p2, q1)),
                        EpsilonInverse),
                 BigMul(q1, q2))

\* mutant: without an earlier estimate the test counts as passed
LastConvergedOrNone(mus, mu_k) ==
    mus = <<>> \/ Converged(mus[Len(mus)], mu_k)

\* mu.last().is_some_and(|it| ...)
LastConverged(mus, mu_k) == mus # <<>> /\ Converged(mus[Len(mus)], mu_k)

RECURSIVE GCDOf(_, _, _)
GCDOf(v, i, g) == IF i < 0 THEN g ELSE GCDOf(v, i - 1, GCD(AbsI(v[i][1]), g))

RECURSIVE LCMOfDenominators(_, _, _)
LCMOfDenominators(v, i, m) ==
    IF i < 0 THEN m
    ELSE LCMOfDenominators(v, i - 1, (m \div GCD(m, v[i][2])) * v[i][2])

\* the direction of v: v divided by the positive rational that makes its
\* entries integers without a common factor
Direction(v, nn) ==
    LET m == LCMOfDenominators(v, nn - 1, 1)
        w == [i \in 0 .. nn - 1 |-> R(v[i][1] * (m \div v[i][2]))]
        g == GCDOf(w, nn - 1, 0)
    IN  [i \in 0 .. nn - 1 |-> R(w[i][1] \div g)]

\* y_k.normalized(): y_k / y_k.norm().  A zero norm makes every entry
\* 0.0 / 0.0, a NaN entry makes the norm and with it every entry NaN.
normalized(v, nn) ==
    IF \E i \in 0 .. nn - 1 : IsNaN(v[i]) THEN filled_with(NaN, nn)
    ELSE IF \A i \in 0 .. nn - 1 : v[i] = Zero THEN filled_with(NaN, nn)
    ELSE Direction(v, nn)

\* the iterate's direction is within the range the model follows
Representable(v, nn) ==
    \A i \in 0 .. nn - 1 : IsNaN(v[i]) \/ AbsI(v[i][1]) <= MaxMagnitude

InitPower ==
    /\ n \in Dims
    /\ a \in PowerMatrices(n)
    /\ x_k = filled_with(One, n)
    /\ unit = FALSE
    /\ mu = <<>>
    /\ count = 1
    /\ pc = "loop"
    /\ b = <<>> /\ ab = <<>> /\ l = <<>> /\ u = <<>> /\ pi = <<>> /\ k = 0
    /\ y = <<>> /\ x = <<>> /\ sol = <<>> /\ err = ""

\* an iteration of the loop is entered
InLoop ==
    /\ pc = "loop"
    /\ count < MAX_ITERATIONS
    /\ count <= MaxSteps
    /\ Representable(x_k, n)

\* ex4.rs:15, .expect("found NaN or Inf")
PowerNaN ==
    /\ InLoop
    /\ ComparesNaN(x_k, n)
    /\ pc' = "panic"
    /\ err' = "found NaN or Inf"
    /\ UNCHANGED <<n, a, b, ab, l, u, pi, k, y, x, x_k, unit, mu, count, sol>>

\* ex4.rs:10-25, the convergence test holds: return
PowerReturn ==
    /\ InLoop
    /\ ~ComparesNaN(x_k, n)
    /\ LET y_k == MulVec(a, x_k, n)
           i == MaxAbsIndex(x_k, n)
           mu_k == Div(y_k[i], x_k[i])
       IN  /\ LastConverged(mu, mu_k)
           /\ sol' = [eigenvalue |-> mu_k, eigenvector |-> x_k,
                      iteration_count |-> count]
    /\ pc' = "done"
    /\ UNCHANGED <<n, a, b, ab, l, u, pi, k, y, x, x_k, unit, mu, count, err>>

\* ex4.rs:10-28, the convergence test fails: normalize and go on
PowerStep ==
    /\ InLoop
    /\ ~ComparesNaN(x_k, n)
    /\ LET y_k == MulVec(a, x_k, n)
           i == MaxAbsIndex(x_k, n)
           mu_k == Div(y_k[i], x_k[i])
       IN  /\ ~LastConverged(mu, mu_k)
           /\ x_k' = normalized(y_k, n)
           /\ mu' = Append(mu, mu_k)
    /\ unit' = TRUE
    /\ count' = count + 1
    /\ UNCHANGED <<n, a, b, ab, l, u, pi, k, y, x, sol, pc, err>>

\* an iteration that fails the convergence test and leaves x_k and the last
\* estimate as they were (an estimate that fails the test against itself is
\* not finite)
Repeats ==
    /\ pc = "loop"
    /\ count < MAX_ITERATIONS
    /\ mu # <<>> /\ ~IsFinite(mu[Len(mu)])
    /\ ~ComparesNaN(x_k, n)
    /\ LET y_k == MulVec(a, x_k, n)
           i == MaxAbsIndex(x_k, n)
           mu_k == Div(y_k[i], x_k[i])
       IN  /\ ~LastConverged(mu, mu_k)
           /\ normalized(y_k, n) = x_k
           /\ mu # <<>> /\ mu[Len(mu)] = mu_k

\* ex4.rs:9-29, the iterations that repeat: after an iteration that fails the
\* convergence test and leaves x_k and the last estimate as they were, every
\* later iteration does the same, and the loop runs until its range is used
\* up.  Of the estimates these iterations push, all equal, mu keeps one.
PowerSpin ==
    /\ Repeats
    /\ mu' = Append(mu, mu[Len(mu)])
    /\ count' = MAX_ITERATIONS
    /\ UNCHANGED <<n, a, b, ab, l, u, pi, k, y, x, x_k, unit, sol, pc, err>>

\* mutant: the last estimate is returned when the range is used up
PowerDivergeReturnsLast ==
    /\ pc = "loop"
    /\ ~(count < MAX_ITERATIONS)
    /\ sol' = [eigenvalue |-> mu[Len(mu)], eigenvector |-> x_k,
               iteration_count |-> count]
    /\ pc' = "done"
    /\ UNCHANGED <<n, a, b, ab, l, u, pi, k, y, x, x_k, unit, mu, count, err>>

\* ex4.rs:31, the range 1..MAX_ITERATIONS is used up; the message of the
\* panic is kept without the quotes it puts around mu
PowerDiverge ==
    /\ pc = "loop"
    /\ ~(count < MAX_ITERATIONS)
    /\ pc' = "panic"
    /\ err' = "mu seems to diverge"
    /\ UNCHANGED <<n, a, b, ab, l, u, pi, k, y, x, x_k, unit, mu, count, sol>>

NextPower ==
    PowerNaN \/ PowerReturn \/ PowerStep \/ PowerSpin \/ PowerDiverge

SpecPower == InitPower /\ [][NextPower]_vars

\* the enabling condition of NextPower
CanStep == pc = "loop" /\ (InLoop \/ ~(count < MAX_ITERATIONS) \/ Repeats)

\* a step of a run that can take one, told by what every step of NextPower
\* changes: pc or count
Advance ==
    /\ CanStep
    /\ pc' \in {"loop", "done", "panic"}
    /\ count' \in {count, count + 1, MAX_ITERATIONS}

\* the loop waits for nothing: a run that can take a step takes one (the
\* condition WF_vars(NextPower), stated on pc and count)
SpecPowerFair == SpecPower /\ WF_<<pc, count>>(Advance)

(***************************************************************************)
(* forward_substitution and back_substitution called on their own          *)
(* (lib.rs:18-62).  The entries the assertion of the called routine reads  *)
(* range over values around EPSILON, the entries its loop reads over small *)
(* integers.                                                               *)
(***************************************************************************)
\* the entries the assertion of the routine reads
Asserted(routine, nn) ==
    {p \in (0 .. nn - 1) \X (0 .. nn - 1) :
        IF routine = "forward" THEN p[2] > p[1] ELSE p[2] < p[1]}

\* the entries the loop of the routine reads
Used(routine, nn) == ((0 .. nn - 1) \X (0 .. nn - 1)) \ Asserted(routine, nn)

HalfEpsilon == <<1, 2, 1>>

TwiceEpsilon == <<2, 1, 1>>

AroundEpsilon(nn) ==
    IF nn = 3 THEN {Zero, EPSILON, One}
    ELSE {Zero, HalfEpsilon, EPSILON, Neg(EPSILON), TwiceEpsilon,
          Neg(TwiceEpsilon), One}

TriMatrices(routine, nn) ==
    {[i \in 0 .. nn - 1 |-> [j \in 0 .. nn - 1 |->
         IF <<i, j>> \in Asserted(routine, nn) THEN t[<<i, j>>]
         ELSE R(m[<<i, j>>])]] :
        m \in [Used(routine, nn) -> Entries(nn)],
        t \in [Asserted(routine, nn) -> AroundEpsilon(nn)]}

ExactlyTriangular(routine, m, nn) ==
    \A p \in Asserted(routine, nn) : m[p[1]][p[2]] = Zero

\* right-hand sides: the fixed vectors and, for a triangular matrix, its
\* products with them
TriVectors(routine, m, nn) ==
    Vectors(nn) \cup
        (IF ExactlyTriangular(routine, m, nn)
         THEN {MulVec(m, g, nn) : g \in Vectors(nn)} ELSE {})

InitTri ==
    /\ n \in Dims
    /\ pc \in {"forward", "back"}
    /\ a \in TriMatrices(pc, n)
    /\ b \in TriVectors(pc, a, n)
    /\ Idle

\* lib.rs:22-35, the assertion holds
TriForward ==
    /\ pc = "forward"
    /\ IsLowerTriangular(a, n)
    /\ y' = forward_substitution(a, b, n)
    /\ pc' = "done"
    /\ UNCHANGED <<n, a, b, ab, l, u, pi, k, x, x_k, unit, mu, count, sol, err>>

\* lib.rs:22-25, the assertion fails
TriForwardPanic ==
    /\ pc = "forward"
    /\ ~IsLowerTriangular(a, n)
    /\ pc' = "panic"
    /\ err' = "Matrix is not lower triangular"
    /\ UNCHANGED <<n, a, b, ab, l, u, pi, k, y, x, x_k, unit, mu, count, sol>>

\* lib.rs:48-61, the assertion holds
TriBack ==
    /\ pc = "back"
    /\ IsUpperTriangular(a, n)
    /\ x' = back_substitution(a, b, n)
    /\ pc' = "done"
    /\ UNCHANGED <<n, a, b, ab, l, u, pi, k, y, x_k, unit, mu, count, sol, err>>

\* lib.rs:48-51, the assertion fails
TriBackPanic ==
    /\ pc = "back"
    /\ ~IsUpperTriangular(a, n)
    /\ pc' = "panic"
    /\ err' = "Matrix is not upper triangular"
    /\ UNCHANGED <<n, a, b, ab, l, u, pi, k, y, x, x_k, unit, mu, count, sol>>

NextTri == TriForward \/ TriForwardPanic \/ TriBack \/ TriBackPanic

SpecTri == InitTri /\ [][NextTri]_vars

(***************************************************************************)
(* All the routines together: a run is one call of one of them.  The       *)
(* routine of a run is told by the variables it uses: ab for               *)
(* solve_by_gaussian_elimination, u for solve_by_lu_decomposition, x_k for *)
(* solve_by_power_iteration, none of them for the triangular solvers.      *)
(***************************************************************************)
InitAll == InitGauss \/ InitLU \/ InitPower \/ InitTri

GaussRun == ab # <<>>

LURun == u # <<>>

PowerRun == x_k # <<>>

TriRun == ab = <<>> /\ u = <<>> /\ x_k = <<>>

NextAll ==
    \/ GaussRun /\ GaussPivot
    \/ GaussRun /\ GaussSingular
    \/ GaussRun /\ GaussEliminate
    \/ GaussRun /\ GaussBack
    \/ LURun /\ LUPivot
    \/ LURun /\ LUSingular
    \/ LURun /\ LUEliminate
    \/ LURun /\ LUForward
    \/ LURun /\ LUBack
    \/ PowerRun /\ PowerNaN
    \/ PowerRun /\ PowerReturn
    \/ PowerRun /\ PowerStep
    \/ PowerRun /\ PowerSpin
    \/ PowerRun /\ PowerDiverge
    \/ TriRun /\ TriForward
    \/ TriRun /\ TriForwardPanic
    \/ TriRun /\ TriBack
    \/ TriRun /\ TriBackPanic

SpecAll == InitAll /\ [][NextAll]_vars

(***************************************************************************)
(* Notions the claims are stated in                                        *)
(***************************************************************************)
Column(m, j, nn) == [r \in 0 .. nn - 1 |-> m[r][j]]

\* entry (i, j) of the product of two N x N matrices
Product(m1, m2, i, j, nn) == Dot(m1[i], Column(m2, j, nn), 0, nn - 1)

\* the minor of m without row 0 and column c
Minor(m, c, nn) ==
    [i \in 0 .. nn - 2 |->
        [j \in 0 .. nn - 2 |-> m[i + 1][IF j < c THEN j ELSE j + 1]]]

\* the determinant, expanded along row 0
RECURSIVE Det(_, _)
Det(m, nn) ==
    IF nn = 1 THEN m[0][0]
    ELSE LET term(c) ==
                 Mul(IF c % 2 = 0 THEN m[0][c] ELSE Neg(m[0][c]),
                     Det(Minor(m, c, nn), nn - 1))
             sumTo[c \in 0 .. nn - 1] ==
                 IF c = 0 THEN term(0) ELSE Add(sumTo[c - 1], term(c))
         IN  sumTo[nn - 1]

NonSingular(m, nn) == Det(m, nn) # Zero

HasZeroColumn(m, nn) ==
    \E j \in 0 .. nn - 1 : \A i \in 0 .. nn - 1 : m[i][j] = Zero

HasIdenticalRows(m, nn) ==
    \E i, j \in 0 .. nn - 1 : i # j /\ m[i] = m[j]

\* A * v = w within EPSILON in every component
Solves(m, v, w, nn) ==
    \A i \in 0 .. nn - 1 : Close(Dot(m[i], v, 0, nn - 1), w[i])

\* lu_decomposition has returned its LUDecomposition { l, u, pi }
LUReturned == pc \in {"forward", "back", "done"}

\* do_gaussian_elimination_for_n_n1 has returned
GaussReturned == pc \in {"back", "done"}

IsPermutation(p, nn) ==
    /\ DOMAIN p = 0 .. nn - 1
    /\ {p[i] : i \in 0 .. nn - 1} = 0 .. nn - 1

(***************************************************************************)
(* Claims                                                                  *)
(***************************************************************************)
\* C1: whenever lu_decomposition returns, P*A = L*U: for every row i and
\* column j, (L*U)[i,j] equals A[pi[i], j] within EPSILON (checked under
\* SpecLU, whose inputs include the 3x3 example of test_lu_decomposition).
C1_PAEqualsLU ==
    LUReturned =>
        \A i, j \in 0 .. n - 1 : Close(Product(l, u, i, j, n), a[pi[i]][j])

\* C1 witness: the decomposition of the 3x3 example has returned, with rows
\* swapped on the way.
C1_Witness ==
    /\ pc = "forward"
    /\ a = ExampleA
    /\ pi # [i \in 0 .. n - 1 |-> i]

\* C2: for non-singular A, solve_by_gaussian_elimination does not panic and
\* the x it returns satisfies A*x = b within EPSILON.
C2_GaussSolves ==
    NonSingular(a, n) =>
        /\ pc # "panic"
        /\ pc = "done" => Solves(a, x, b, n)

\* C2 witness: a 3x3 system solved after a row swap changed the working copy.
C2_Witness ==
    /\ pc = "done"
    /\ n = 3
    /\ NonSingular(a, n)
    /\ ab[0] # Augmented(a, b, n)[0]

\* C3: for non-singular A, solve_by_lu_decomposition does not panic, its y
\* is forward_substitution(L, b') with b'[i] = b[pi[i]], its x is
\* back_substitution(U, y), and A*x = b within EPSILON.
C3_LUSolves ==
    NonSingular(a, n) =>
        /\ pc # "panic"
        /\ pc \in {"back", "done"} =>
               y = forward_substitution(l, [i \in 0 .. n - 1 |-> b[pi[i]]], n)
        /\ pc = "done" =>
               /\ x = back_substitution(u, y, n)
               /\ Solves(a, x, b, n)

\* C3 witness: a 3x3 system solved with a permutation that is not the
\* identity.
C3_Witness ==
    /\ pc = "done"
    /\ n = 3
    /\ NonSingular(a, n)
    /\ pi # [i \in 0 .. n - 1 |-> i]
    /\ Solves(a, x, b, n)

\* C4 (as claimed): for a matrix with a zero column or two identical rows,
\* neither solver ever completes and yields a result: a run that ends, ends
\* in the panic "Matrix is singular".
C4_SingularReported ==
    (HasZeroColumn(a, n) \/ HasIdenticalRows(a, n)) =>
        /\ pc # "done"
        /\ pc = "panic" => err = "Matrix is singular"

\* C5: whenever do_gaussian_elimination_for_n_n1 returns, every entry below
\* the diagonal in the first N columns is zero within EPSILON and the
\* assertion of back_substitution holds; for the input of
\* test_do_gaussian_elimination the result is
\* [[-3,-1,2,-11],[0,5/3,2/3,13/3],[0,0,1/5,-1/5]] entry by entry.
C5_Expected ==
    <<<<R(-3), R(-1), R(2), R(-11)>>,
      <<Zero, Norm(5, 3, 0), Norm(2, 3, 0), Norm(13, 3, 0)>>,
      <<Zero, Zero, Norm(1, 5, 0), Norm(-1, 5, 0)>>>>

C5_GaussTriangular ==
    GaussReturned =>
        /\ \A i \in 0 .. n - 1 : \A j \in 0 .. i - 1 : Close(ab[i][j], Zero)
        /\ ~(pc = "panic" /\ err = "Matrix is not upper triangular")
        /\ (a = ExampleA /\ b = ExampleB) =>
               \A i \in 0 .. 2 : \A j \in 0 .. 3 :
                   Close(ab[i][j], C5_Expected[i + 1][j + 1])

\* C5 witness: the elimination of the test's augmented matrix has returned.
C5_Witness ==
    /\ pc = "back"
    /\ a = ExampleA
    /\ b = ExampleB
    /\ ab[2][3] = Norm(-1, 5, 0)

\* C6: in lu_decomposition pi is a bijection on 0 .. N-1 in the initial
\* state, after every pivot step and on return.
C6_PiBijection == IsPermutation(pi, n)

\* C6 witness: a 3x3 run in which both pivot steps 0 and 1 swapped, so that
\* pi is a 3-cycle.
C6_Witness ==
    /\ n = 3
    /\ pc = "eliminate"
    /\ k = 1
    /\ \A i \in 0 .. 2 : pi[i] # i

\* C7: on every return of lu_decomposition L is unit-lower-triangular (ones
\* on the diagonal, exact zeros above it) and U is upper-triangular within
\* EPSILON, and the assertions of forward_substitution and back_substitution
\* never fail in solve_by_lu_decomposition.
C7_Triangular ==
    /\ LUReturned =>
           /\ \A i \in 0 .. n - 1 :
                  /\ l[i][i] = One
                  /\ \A j \in i + 1 .. n - 1 : l[i][j] = Zero
           /\ \A i \in 0 .. n - 1 : \A j \in 0 .. i - 1 : Close(u[i][j], Zero)
    /\ pc = "panic" => err = "Matrix is singular"

\* C7 witness: lu_decomposition returned after swapping rows of an L that
\* already held a non-zero factor, and both substitutions ran.
C7_Witness ==
    /\ pc = "done"
    /\ n = 3
    /\ pi[2] # 2
    /\ l[2][0] # Zero
    /\ l[1][0] # Zero

\* the routine a finished run of SpecTri called
Called ==
    IF y # <<>> \/ err = "Matrix is not lower triangular" THEN "forward"
    ELSE "back"

NonZeroDiagonal(m, nn) == \A i \in 0 .. nn - 1 : m[i][i] # Zero

\* C8: for lower-triangular L with non-zero diagonal and every vector g,
\* forward_substitution(L, L*g) = g; for upper-triangular U with non-zero
\* diagonal, back_substitution(U, U*g) = g.
C8_RoundTrip ==
    (/\ pc = "done"
     /\ ExactlyTriangular(Called, a, n)
     /\ NonZeroDiagonal(a, n)) =>
        \A g \in Vectors(n) :
            b = MulVec(a, g, n) =>
                \A i \in 0 .. n - 1 :
                    Close((IF Called = "forward" THEN y ELSE x)[i], g[i])

\* C8 witness: forward substitution has solved L*y = L*g for a 3x3 L with
\* non-zero entries below the diagonal.
C8_Witness ==
    /\ pc = "done"
    /\ n = 3
    /\ Called = "forward"
    /\ ExactlyTriangular("forward", a, n)
    /\ NonZeroDiagonal(a, n)
    /\ a[1][0] # Zero /\ a[2][0] # Zero /\ a[2][1] # Zero
    /\ b = MulVec(a, [i \in 0 .. 2 |-> R(i + 1)], n)
    /\ y = [i \in 0 .. 2 |-> R(i + 1)]

\* C9 (as claimed): forward_substitution (back_substitution) panics exactly
\* when some entry strictly above (below) the diagonal has magnitude greater
\* than EPSILON, and accepts the matrix when every such entry has magnitude
\* at most EPSILON.
C9_AssertionBoundary ==
    LET large == \E p \in Asserted(Called, n) :
                     Lt(EPSILON, Abs(a[p[1]][p[2]]))
    IN  /\ pc = "panic" => large
        /\ pc = "done" => ~large

\* | |s1| U - |s2| V | as a wide natural, for the signed numbers s1 U, s2 V
\* given by the signs s1, s2 and the magnitudes U, V
SignedDiff(s1, bigU, s2, bigV) ==
    IF s1 * s2 < 0 THEN BigAdd(bigU, bigV)
    ELSE IF s1 = 0 THEN (IF s2 = 0 THEN <<>> ELSE bigV)
    ELSE IF s2 = 0 THEN bigU
    ELSE BigAbsDiff(bigU, bigV)

\* the square of the norm of the integer vector w, entries 0 .. i
RECURSIVE NormSquared(_, _)
NormSquared(w, i) ==
    IF i < 0 THEN <<>>
    ELSE BigAdd(NormSquared(w, i - 1), BigSquare(BigOfNat(AbsI(w[i][1]))))

\* A x = lambda x within EPSILON in every component, for x = w / |w| and
\* lambda = p / q: (q (A w)[i] - p w[i])^2 * 10^20 < q^2 (w . w)
IsEigenpair(m, lambda, w, nn) ==
    /\ IsFinite(lambda)
    /\ \A i \in 0 .. nn - 1 : IsFinite(w[i])
    /\ LET y_k == MulVec(m, w, nn)
           q == BigOfNat(lambda[2])
           p == BigOfNat(AbsI(lambda[1]))
       IN  \A i \in 0 .. nn - 1 :
               LET d == SignedDiff(Sign(y_k[i][1]),
                                   BigMul(q, BigOfNat(AbsI(y_k[i][1]))),
                                   Sign(lambda[1]) * Sign(w[i][1]),
                                   BigMul(p, BigOfNat(AbsI(w[i][1]))))
               IN  BigLt(BigSquare(BigMul(d, EpsilonInverse)),
                         BigMul(BigSquare(q), NormSquared(w, nn - 1)))

\* the vectors with entries in -1 .. 1 other than the zero vector
TestVectors(nn) ==
    {IntVector(v, nn) : v \in [0 .. nn - 1 -> -1 .. 1]} \ {zeroed(nn)}

\* A consequence of lambda = p / q having the largest absolute value among
\* the eigenvalues of the symmetric m: no Rayleigh quotient exceeds it,
\* |v.(m v)| <= (|lambda| + EPSILON) (v.v), here for the test vectors v.
NoLargerRayleighQuotient(m, lambda, nn) ==
    /\ IsFinite(lambda)
    /\ \A v \in TestVectors(nn) :
           LET vmv == Dot(v, MulVec(m, v, nn), 0, nn - 1)
               vv == Dot(v, v, 0, nn - 1)
               q == BigOfNat(lambda[2])
               p == BigOfNat(AbsI(lambda[1]))
           IN  ~BigLt(BigMul(BigAdd(BigMul(p, EpsilonInverse), q),
                             BigOfNat(vv[1])),
                      BigMul(BigMul(BigOfNat(AbsI(vmv[1])), q),
                             EpsilonInverse))

\* | num / den - sqrt(2) | < EPSILON for positive integers num, den:
\* (num 10^10 - den)^2 < 2 (den 10^10)^2 < (num 10^10 + den)^2
CloseToRootTwo(num, den) ==
    LET scaled == BigMul(BigOfNat(num), EpsilonInverse)
        d == BigOfNat(den)
        middle == BigMul(BigOfNat(2), BigSquare(BigMul(d, EpsilonInverse)))
    IN  /\ num > 0 /\ den > 0
        /\ ~BigLt(scaled, d)
        /\ BigLt(BigSquare(BigSub(scaled, d)), middle)
        /\ BigLt(middle, BigSquare(BigAdd(scaled, d)))

\* the solution returned for ExampleP: the eigenvalue is within EPSILON of
\* 2 + sqrt(2) and the eigenvector is proportional to [1, sqrt(2), 1]
ExampleSolution(s) ==
    /\ IsFinite(s.eigenvalue)
    /\ CloseToRootTwo(s.eigenvalue[1] - 2 * s.eigenvalue[2], s.eigenvalue[2])
    /\ s.eigenvector[0] = s.eigenvector[2]
    /\ CloseToRootTwo(s.eigenvector[1][1], s.eigenvector[0][1])

\* C10 (as claimed): for symmetric A, whenever solve_by_power_iteration
\* returns, the returned eigenvalue is the eigenvalue of largest absolute
\* value and the returned x is an eigenvector for it, A x = eigenvalue x
\* within EPSILON; for the matrix of the test the eigenvalue is 2 + sqrt(2)
\* within EPSILON and the eigenvector is proportional to [1, sqrt(2), 1].
C10_DominantEigenpair ==
    (pc = "done" /\ Symmetric(a, n)) =>
        /\ IsEigenpair(a, sol.eigenvalue, sol.eigenvector, n)
        /\ NoLargerRayleighQuotient(a, sol.eigenvalue, n)
        /\ a = ExampleP => ExampleSolution(sol)

\* the part of C10 about the matrix of test_solve_by_power_iteration
ExampleConverges ==
    (pc = "done" /\ a = ExampleP) =>
        /\ ExampleSolution(sol)
        /\ IsEigenpair(a, sol.eigenvalue, sol.eigenvector, n)
        /\ NoLargerRayleighQuotient(a, sol.eigenvalue, n)

ExampleReturned == pc = "done" /\ a = ExampleP /\ sol.iteration_count = 15


\* C11: solve_by_power_iteration returns only at a step at which an earlier
\* estimate exists and differs from mu_k by less than EPSILON in absolute
\* value, and what it returns is mu_k, the iterate x_k that mu_k was computed
\* from and the current count; once the range of the loop is used up no
\* solution is returned and the run ends in the divergence panic.
C11_ReturnOnlyOnConvergence ==
    /\ pc = "done" =>
           /\ count < MAX_ITERATIONS
           /\ mu # <<>>
           /\ LET y_k == MulVec(a, x_k, n)
                  i == MaxAbsIndex(x_k, n)
                  mu_k == Div(y_k[i], x_k[i])
              IN  /\ Converged(mu[Len(mu)], mu_k)
                  /\ sol = [eigenvalue |-> mu_k, eigenvector |-> x_k,
                            iteration_count |-> count]
    /\ ~(count < MAX_ITERATIONS) =>
           /\ pc \in {"loop", "panic"}
           /\ sol = <<>>
           /\ pc = "panic" => err = "mu seems to diverge"
    /\ (pc = "panic" /\ err = "mu seems to diverge") =>
           ~(count < MAX_ITERATIONS)

\* C11 witness: a run whose estimates never passed the test has used up the
\* range of the loop and ended in the divergence panic.
C11_Witness ==
    /\ pc = "panic"
    /\ err = "mu seems to diverge"
    /\ count = MAX_ITERATIONS
    /\ sol = <<>>

\* C12 (as claimed): normalized() fails on a vector whose norm is zero, so
\* the iterate that solve_by_power_iteration stores from it never holds a
\* NaN or an infinite entry while the run goes on.
C12_ZeroNormFails ==
    pc = "loop" => \A i \in 0 .. n - 1 : IsFinite(x_k[i])

\* C13: the solvers work on a private copy: in every step of
\* solve_by_gaussian_elimination, lu_decomposition and
\* solve_by_lu_decomposition, solve_by_power_iteration, forward_substitution
\* and back_substitution, the failing steps included, the caller's A and b
\* keep their values.
C13_CallerUnchanged == [][a' = a /\ b' = b]_vars

\* C13 witness: solve_by_lu_decomposition has completed after swapping rows
\* of its working copy, which now differs from the caller's matrix.
C13_Witness ==
    /\ pc = "done"
    /\ u # <<>>
    /\ n = 3
    /\ pi # [i \in 0 .. n - 1 |-> i]
    /\ u[0] # a[0]

\* the working matrix of an elimination: [A | b] in ex1.rs, U in ex23.rs
Working == IF GaussRun THEN ab ELSE u

\* the first of the rows kk .. nn-1 whose entry in column kk has the largest
\* magnitude
FirstMaxRow(m, kk, nn) ==
    CHOOSE i \in kk .. nn - 1 :
        /\ \A j \in kk .. nn - 1 : ~Lt(Abs(m[i][kk]), Abs(m[j][kk]))
        /\ \A j \in kk .. i - 1 : Lt(Abs(m[j][kk]), Abs(m[i][kk]))

\* C14 (as claimed): at every pivot step k of Gaussian elimination and of
\* lu_decomposition the row swapped into position k is the first row of
\* k .. N-1 with the largest |A[i,k]|, and if every candidate has magnitude at
\* most EPSILON the step ends in the panic "Matrix is singular".
C14_FirstMaximalPivot ==
    [][(pc = "pivot" /\ (GaussRun \/ LURun)) =>
           IF \A i \in k .. n - 1 : Le(Abs(Working[i][k]), EPSILON)
           THEN pc' = "panic" /\ err' = "Matrix is singular"
           ELSE /\ pc' = "eliminate"
                /\ LET i == FirstMaxRow(Working, k, n)
                   IN  Working' = IF i # k THEN swap_rows(Working, i, k)
                                  ELSE Working]_vars

\* the part of C14 that does not depend on the order of equal magnitudes: the
\* row in position k after the pivot step has the largest magnitude in column
\* k, and a column without a candidate ends the run
MaximalPivot ==
    [][(pc = "pivot" /\ (GaussRun \/ LURun)) =>
           IF \A i \in k .. n - 1 : Le(Abs(Working[i][k]), EPSILON)
           THEN pc' = "panic" /\ err' = "Matrix is singular"
           ELSE /\ pc' = "eliminate"
                /\ \A i \in k .. n - 1 :
                       ~Lt(Abs(Working'[k][k]), Abs(Working'[i][k]))]_vars

\* the first index of an entry of v with the largest magnitude
FirstMaxAbsIndex(v, nn) ==
    CHOOSE i \in 0 .. nn - 1 :
        /\ \A j \in 0 .. nn - 1 : ~Lt(Abs(v[i]), Abs(v[j]))
        /\ \A j \in 0 .. i - 1 : Lt(Abs(v[j]), Abs(v[i]))

\* C15 (as claimed): in every step of solve_by_power_iteration the estimate,
\* pushed to mu or returned, is y_k[i] / x_k[i] for the first index i of an
\* entry of x_k with the largest magnitude; on the first step, where x_k is
\* all ones, i = 0.
C15_FirstLargestEntry ==
    [][(pc = "loop" /\ (count' = count + 1 \/ pc' = "done")) =>
           LET y_k == MulVec(a, x_k, n)
               i == FirstMaxAbsIndex(x_k, n)
               mu_k == Div(y_k[i], x_k[i])
           IN  /\ count = 1 => mu'[Len(mu')] = Div(y_k[0], x_k[0])
               /\ count' = count + 1 => mu'[Len(mu')] = mu_k
               /\ pc' = "done" => sol'.eigenvalue = mu_k]_vars

\* the part of C15 that does not depend on the order of equal magnitudes: the
\* estimate is y_k[i] / x_k[i] for an index i of an entry of x_k with the
\* largest magnitude
LargestEntryUsed ==
    [][(pc = "loop" /\ (count' = count + 1 \/ pc' = "done")) =>
           LET y_k == MulVec(a, x_k, n)
           IN  \E i \in 0 .. n - 1 :
                   /\ \A j \in 0 .. n - 1 : ~Lt(Abs(x_k[i]), Abs(x_k[j]))
                   /\ count' = count + 1 =>
                          mu'[Len(mu')] = Div(y_k[i], x_k[i])
                   /\ pc' = "done" =>
                          sol'.eigenvalue = Div(y_k[i], x_k[i])]_vars

\* a step of the loop, followed by the model, at which y_k = A * x_k is the
\* zero vector and the convergence test does not hold
ZeroProduct ==
    /\ InLoop
    /\ count < MaxSteps
    /\ ~ComparesNaN(x_k, n)
    /\ LET y_k == MulVec(a, x_k, n)
           i == MaxAbsIndex(x_k, n)
       IN  /\ y_k = zeroed(n)
           /\ ~LastConverged(mu, Div(y_k[i], x_k[i]))

\* C16: a run of solve_by_power_iteration that comes to a step at which
\* A * x_k is the zero vector and the convergence test does not hold ends in
\* a panic and never returns a solution, for every N >= 1.  (No step leaves
\* a state with pc = "panic", so a run that ends there has not returned and
\* does not return.)
C16_ZeroProductFatal == ZeroProduct ~> (pc = "panic")

\* C16 witness: a 3x3 run has ended in a panic one step after the product
\* with the start vector was the zero vector (the estimate pushed was 0 and
\* the iterate became NaN).
C16_Witness ==
    /\ pc = "panic"
    /\ n = 3
    /\ count = 2
    /\ mu = <<Zero>>
    /\ \A i \in 0 .. n - 1 : IsNaN(x_k[i])
    /\ a # [i \in 0 .. 2 |-> [j \in 0 .. 2 |-> Zero]]



\* C17: after the pivot selection and swap of step k, in Gaussian elimination
\* and in lu_decomposition, |A[k,k]| >= |A[i,k]| for every row i > k, so every
\* multiplier A[i,k] / A[k,k] has magnitude at most 1; and every entry of the
\* L of lu_decomposition has magnitude at most 1 at every step and on return.
C17_MultipliersBounded ==
    /\ (pc = "eliminate" /\ (GaussRun \/ LURun)) =>
           \A i \in k + 1 .. n - 1 :
               /\ Le(Abs(Working[i][k]), Abs(Working[k][k]))
               /\ Le(Abs(Div(Working[i][k], Working[k][k])), One)
    /\ LURun => \A i, j \in 0 .. n - 1 : Le(Abs(l[i][j]), One)

\* C17 witness: a 3x3 decomposition has returned with swapped rows, a
\* multiplier of magnitude 1 and a multiplier of magnitude strictly between 0
\* and 1 in L.
C17_Witness ==
    /\ LURun
    /\ pc = "done"
    /\ n = 3
    /\ pi # [i \in 0 .. n - 1 |-> i]
    /\ Abs(l[1][0]) = One
    /\ Lt(Zero, Abs(l[2][1])) /\ Lt(Abs(l[2][1]), One)

\* C18: the elimination of step k changes only entries in rows k+1 .. N-1 and
\* columns k .. last of the working matrix ([A | b] in Gaussian elimination,
\* U in lu_decomposition), and no step changes a row above the current pivot
\* row k: the rows 0 .. k-1, whose steps have finished, stay as they are.
C18_EliminationFrame ==
    [][(GaussRun \/ LURun) =>
           /\ pc = "eliminate" =>
                  \A i \in 0 .. n - 1 :
                      \A j \in DOMAIN Working[i] :
                          (i <= k \/ j < k) => Working'[i][j] = Working[i][j]
           /\ \A i \in 0 .. k - 1 : Working'[i] = Working[i]]_vars

\* C18 witness: step 1 of a 3x3 elimination has changed row 2 of the working
\* matrix of solve_by_gaussian_elimination right of column 0, after step 0
\* had swapped rows.
C18_Witness ==
    /\ GaussRun
    /\ n = 3
    /\ k = 2
    /\ pc = "back"
    /\ ab[0] # Augmented(a, b, n)[0]
    /\ ab[1][1] # Zero /\ ab[2][1] = Zero /\ ab[2][2] # Zero
    /\ ab[2][2] # a[2][2]

\* C19: every solution returned by solve_by_power_iteration has
\* 2 <= iteration_count <= MAX_ITERATIONS - 1, and the loop performs at most
\* MAX_ITERATIONS - 1 steps: its counter never exceeds MAX_ITERATIONS, the
\* value at which the run ends in the divergence panic.
C19_IterationCountRange ==
    /\ pc = "done" =>
           /\ 2 <= sol.iteration_count
           /\ sol.iteration_count <= MAX_ITERATIONS - 1
    /\ PowerRun => (1 <= count /\ count <= MAX_ITERATIONS)
    /\ (PowerRun /\ count = MAX_ITERATIONS) => pc \in {"loop", "panic"}

\* C19 witness: a run has returned on its second step, the earliest possible.
C19_Witness ==
    /\ pc = "done"
    /\ PowerRun
    /\ sol.iteration_count = 2
    /\ Len(mu) = 1

=============================================================================
